---- MODULE Spec2Model ----
(***************************************************************************)
(* A model of package xdg (harrybrwn/xdg): resolution of the XDG base      *)
(* directories from the process environment, and the Dir path value.      *)
(*                                                                         *)
(* A Go string is modelled as a sequence of one-character strings, so     *)
(* that path cleaning, joining and splitting are computed character by    *)
(* character as the library does.  "/a" is <<"/", "a">>, "" is <<>>.      *)
(***************************************************************************)
EXTENDS Naturals, Sequences, FiniteSets

VARIABLES
    env,     \* the process environment: variable name -> [ok, val] (os.LookupEnv)
    ret,     \* the latest resolution call and the value it returned
    dir,     \* a Dir value
    parts,   \* the outcome of the latest Dir.Split call
    fs,      \* the filesystem: node -> "none" | "dir" | "file" | "locked"
    made,    \* the nodes that existed at the start or that a Create has made
    created, \* the nodes of the paths p on which Create(p) has succeeded
    redone,  \* some Create has succeeded on a path that was a directory already
    fsret    \* the latest Create / Exists call on a Dir and its outcome

vars == <<env, ret, dir, parts, fs, made, created, redone, fsret>>

(***************************************************************************)
(* Strings                                                                 *)
(***************************************************************************)
Separator == "/"
ListSeparator == ":"

\* strings.Join(elems, sep) for a one-character sep
RECURSIVE JoinSep(_, _)
JoinSep(elems, sep) ==
    IF Len(elems) = 0 THEN <<>>
    ELSE IF Len(elems) = 1 THEN elems[1]
    ELSE elems[1] \o <<sep>> \o JoinSep(Tail(elems), sep)

\* index of the first sep in s at or after position i, or Len(s)+1
RECURSIVE IndexFrom(_, _, _)
IndexFrom(s, sep, i) ==
    IF i > Len(s) \/ s[i] = sep THEN i ELSE IndexFrom(s, sep, i + 1)

\* strings.Split(s, sep) for a one-character sep: Count(s, sep) + 1 pieces,
\* so the empty string splits into one empty piece
RECURSIVE StringsSplit(_, _)
StringsSplit(s, sep) ==
    LET i == IndexFrom(s, sep, 1) IN
    IF i > Len(s) THEN <<s>>
    ELSE <<SubSeq(s, 1, i - 1)>> \o StringsSplit(SubSeq(s, i + 1, Len(s)), sep)

(***************************************************************************)
(* path/filepath (Unix)                                                    *)
(***************************************************************************)
\* the inner loop of the ".." case of Clean: back up over the last element.
\* buf is the output buffer, w the write index after the first decrement.
RECURSIVE Backtrack(_, _, _)
Backtrack(buf, w, dotdot) ==
    IF w > dotdot /\ buf[w + 1] # Separator
    THEN Backtrack(buf, w - 1, dotdot)
    ELSE w

\* the main loop of filepath.Clean; r is the (1-based) read index
RECURSIVE CleanLoop(_, _, _, _, _)
CleanLoop(path, r, out, dotdot, rooted) ==
    LET n == Len(path) IN
    IF r > n THEN out
    ELSE IF path[r] = Separator
        THEN CleanLoop(path, r + 1, out, dotdot, rooted)
    ELSE IF path[r] = "." /\ (r = n \/ path[r + 1] = Separator)
        THEN CleanLoop(path, r + 1, out, dotdot, rooted)
    ELSE IF path[r] = "." /\ path[r + 1] = "." /\ (r + 1 = n \/ path[r + 2] = Separator)
        THEN IF Len(out) > dotdot
             THEN CleanLoop(path, r + 2,
                            SubSeq(out, 1, Backtrack(out, Len(out) - 1, dotdot)),
                            dotdot, rooted)
             ELSE IF ~rooted
             THEN LET o == (IF Len(out) > 0 THEN out \o <<Separator>> ELSE out)
                           \o <<".", ".">>
                  IN CleanLoop(path, r + 2, o, Len(o), rooted)
             ELSE CleanLoop(path, r + 2, out, dotdot, rooted)
    ELSE LET o == IF (rooted /\ Len(out) # 1) \/ (~rooted /\ Len(out) # 0)
                  THEN out \o <<Separator>> ELSE out
             e == IndexFrom(path, Separator, r)
         IN CleanLoop(path, e, o \o SubSeq(path, r, e - 1), dotdot, rooted)

\* filepath.Clean
Clean(path) ==
    IF Len(path) = 0 THEN <<".">>
    ELSE LET rooted == path[1] = Separator
             out == IF rooted THEN CleanLoop(path, 2, <<Separator>>, 1, TRUE)
                    ELSE CleanLoop(path, 1, <<>>, 0, FALSE)
         IN IF Len(out) = 0 THEN <<".">> ELSE out

\* filepath.Join(elem...): the elements from the first non-empty one on,
\* joined by the separator and cleaned; "" when every element is empty
RECURSIVE Join(_)
Join(elem) ==
    IF Len(elem) = 0 THEN <<>>
    ELSE IF elem[1] # <<>> THEN Clean(JoinSep(elem, Separator))
    ELSE Join(Tail(elem))

\* SplitList changed to drop the empty entries of the list
SplitList_skipEmpty(path) ==
    IF path = <<>> THEN <<>>
    ELSE SelectSeq(StringsSplit(path, ListSeparator), LAMBDA e : e # <<>>)

\* filepath.SplitList
SplitList(path) ==
    IF path = <<>> THEN <<>> ELSE StringsSplit(path, ListSeparator)

(***************************************************************************)
(* Package constants                                                       *)
(***************************************************************************)
listSeparator == ListSeparator
defaultHomeBase == <<".", "c", "o", "n", "f", "i", "g">>
defaultCacheBase == <<".", "c", "a", "c", "h", "e">>
defaultDataBase == <<".", "l", "o", "c", "a", "l", "/", "s", "h", "a", "r", "e">>
defaultStateBase == <<".", "l", "o", "c", "a", "l", "/", "s", "t", "a", "t", "e">>
defaultDataDirs ==
    <<"/", "u", "s", "r", "/", "l", "o", "c", "a", "l", "/", "s", "h", "a", "r", "e", "/", ":", "/", "u", "s", "r", "/", "s", "h", "a", "r", "e", "/">>
defaultConfigDirs == <<"/", "e", "t", "c", "/", "x", "d", "g">>

configHomeKey == "XDG_CONFIG_HOME"
cacheHomeKey == "XDG_CACHE_HOME"
dataHomeKey == "XDG_DATA_HOME"
stateHomeKey == "XDG_STATE_HOME"
runtimeDirKey == "XDG_RUNTIME_DIR"
dataDirsKey == "XDG_DATA_DIRS"
configDirsKey == "XDG_CONFIG_DIRS"

\* the key the tests pass to getDir and getDirs to reach the unrecognised-key paths
unknownKey == "unknown_key"
homeKey == "HOME"

DirKeys == {configHomeKey, cacheHomeKey, dataHomeKey, stateHomeKey, runtimeDirKey}
ListKeys == {dataDirsKey, configDirsKey}
XdgKeys == DirKeys \cup ListKeys
EnvKeys == XdgKeys \cup {homeKey}

(***************************************************************************)
(* package os                                                              *)
(***************************************************************************)
Absent == [ok |-> FALSE, val |-> <<>>]
Present(v) == [ok |-> TRUE, val |-> v]

\* os.LookupEnv: the value and whether the variable is present
LookupEnv(key) == IF key \in DOMAIN env THEN env[key] ELSE Absent

\* os.Getenv: the value, "" when the variable is absent
Getenv(key) == LookupEnv(key).val

\* os.UserHomeDir (Unix): $HOME, an error when it is unset or empty
UserHomeDir ==
    LET v == Getenv(homeKey) IN
    IF v # <<>> THEN [val |-> v, err |-> FALSE] ELSE [val |-> <<>>, err |-> TRUE]

\* strings.ToUpper on the keys the model passes
ToUpper(key) == IF key = unknownKey THEN "UNKNOWN_KEY" ELSE key

(***************************************************************************)
(* dirFinder and XDG                                                       *)
(***************************************************************************)
NewDirFinder(name) == [name |-> name]
Name(df) == df.name
NewXDG(finder) == [finder |-> finder]
newXdg(name) == NewXDG(NewDirFinder(name))

\* defaultVal changed to put the state directory under the data base
defaultVal_stateUnderData(xdg, home, key) ==
    LET k == ToUpper(key) IN
    IF k = configHomeKey
        THEN Join(<<Join(<<home, defaultHomeBase>>), Name(xdg.finder)>>)
    ELSE IF k = cacheHomeKey
        THEN Join(<<Join(<<home, defaultCacheBase>>), Name(xdg.finder)>>)
    ELSE IF k = dataHomeKey \/ k = stateHomeKey
        THEN Join(<<Join(<<home, defaultDataBase>>), Name(xdg.finder)>>)
    ELSE <<>>

defaultVal(xdg, home, key) ==
    LET k == ToUpper(key) IN
    IF k = configHomeKey
        THEN Join(<<Join(<<home, defaultHomeBase>>), Name(xdg.finder)>>)
    ELSE IF k = cacheHomeKey
        THEN Join(<<Join(<<home, defaultCacheBase>>), Name(xdg.finder)>>)
    ELSE IF k = dataHomeKey
        THEN Join(<<Join(<<home, defaultDataBase>>), Name(xdg.finder)>>)
    ELSE IF k = stateHomeKey
        THEN Join(<<Join(<<home, defaultStateBase>>), Name(xdg.finder)>>)
    ELSE <<>>

\* getDir changed to take a present but empty variable for an absent one
getDir_emptyAsAbsent(xdg, key) ==
    LET l == LookupEnv(key) IN
    IF l.ok /\ l.val # <<>> THEN Join(<<l.val, Name(xdg.finder)>>)
    ELSE IF key = runtimeDirKey THEN <<>>
    ELSE LET h == UserHomeDir IN
         IF h.err THEN <<>>
         ELSE LET def == defaultVal(xdg, h.val, key) IN
              IF Len(def) > 0 THEN def
              ELSE Join(<<h.val, <<".">> \o Name(xdg.finder)>>)

\* getDir changed to ignore the error of os.UserHomeDir
getDir_ignoreHomeErr(xdg, key) ==
    LET l == LookupEnv(key) IN
    IF l.ok THEN Join(<<l.val, Name(xdg.finder)>>)
    ELSE IF key = runtimeDirKey THEN <<>>
    ELSE LET h == UserHomeDir
             def == defaultVal(xdg, h.val, key)
         IN IF Len(def) > 0 THEN def
            ELSE Join(<<h.val, <<".">> \o Name(xdg.finder)>>)

\* getDir changed to lose the case of the runtime directory
getDir_noRuntimeCase(xdg, key) ==
    LET l == LookupEnv(key) IN
    IF l.ok THEN Join(<<l.val, Name(xdg.finder)>>)
    ELSE LET h == UserHomeDir IN
         IF h.err THEN <<>>
         ELSE LET def == defaultVal(xdg, h.val, key) IN
              IF Len(def) > 0 THEN def
              ELSE Join(<<h.val, <<".">> \o Name(xdg.finder)>>)

getDir(xdg, key) ==
    LET l == LookupEnv(key) IN
    IF l.ok THEN Join(<<l.val, Name(xdg.finder)>>)
    ELSE IF key = runtimeDirKey THEN <<>>
    ELSE LET h == UserHomeDir IN
         IF h.err THEN <<>>
         ELSE LET def == defaultVal(xdg, h.val, key) IN
              IF Len(def) > 0 THEN def
              ELSE Join(<<h.val, <<".">> \o Name(xdg.finder)>>)

\* getDirs changed to swap the two default lists
getDirs_swappedDefaults(xdg, key) ==
    LET l == LookupEnv(key)
        p == IF l.ok THEN l.val
             ELSE IF key = dataDirsKey THEN defaultConfigDirs
             ELSE IF key = configDirsKey THEN defaultDataDirs
             ELSE <<>>
    IN IF Len(p) > 0
       THEN LET paths == SplitList(p) IN
            [i \in 1..Len(paths) |-> Join(<<paths[i], Name(xdg.finder)>>)]
       ELSE <<>>

\* getDirs changed to fall back to the default list on a present but empty
\* variable
getDirs_emptyUsesDefault(xdg, key) ==
    LET l == LookupEnv(key)
        p == IF l.ok /\ l.val # <<>> THEN l.val
             ELSE IF key = dataDirsKey THEN defaultDataDirs
             ELSE IF key = configDirsKey THEN defaultConfigDirs
             ELSE <<>>
    IN IF Len(p) > 0
       THEN LET paths == SplitList(p) IN
            [i \in 1..Len(paths) |-> Join(<<paths[i], Name(xdg.finder)>>)]
       ELSE <<>>

getDirs(xdg, key) ==
    LET l == LookupEnv(key)
        p == IF l.ok THEN l.val
             ELSE IF key = dataDirsKey THEN defaultDataDirs
             ELSE IF key = configDirsKey THEN defaultConfigDirs
             ELSE <<>>
    IN IF Len(p) > 0
       THEN LET paths == SplitList(p) IN
            [i \in 1..Len(paths) |-> Join(<<paths[i], Name(xdg.finder)>>)]
       ELSE <<>>

XDGConfig(xdg) == getDir(xdg, configHomeKey)
XDGCache(xdg) == getDir(xdg, cacheHomeKey)
XDGData(xdg) == getDir(xdg, dataHomeKey)
XDGState(xdg) == getDir(xdg, stateHomeKey)
XDGRuntime(xdg) == getDir(xdg, runtimeDirKey)
XDGConfigDirs(xdg) == getDirs(xdg, configDirsKey)
XDGDataDirs(xdg) == getDirs(xdg, dataDirsKey)

Config(name) == XDGConfig(newXdg(name))
State(name) == XDGState(newXdg(name))
Data(name) == XDGData(newXdg(name))
Cache(name) == XDGCache(newXdg(name))
Runtime(name) == XDGRuntime(newXdg(name))
ConfigDirs(name) == XDGConfigDirs(newXdg(name))
DataDirs(name) == XDGDataDirs(newXdg(name))

(***************************************************************************)
(* Resolution calls.  ret records the call and what it returned: val from  *)
(* the package-level function, method from the XDG method.                 *)
(***************************************************************************)
NoCall == [fn |-> "none", name |-> <<>>, val |-> <<>>, method |-> <<>>]

Returns(fn, name, val, method) ==
    /\ ret' = [fn |-> fn, name |-> name, val |-> val, method |-> method]
    /\ UNCHANGED <<env, dir, parts, fs, made, created, redone, fsret>>

\* a call of the package-level Config(name), and of the method on an XDG built
\* around a finder of the same name
CallConfig(name) ==
    Returns("Config", name, Config(name), XDGConfig(NewXDG(NewDirFinder(name))))

\* a call of the package-level Cache(name), and of the method on an XDG built
\* around a finder of the same name
CallCache(name) ==
    Returns("Cache", name, Cache(name), XDGCache(NewXDG(NewDirFinder(name))))

\* a call of the package-level Data(name), and of the method on an XDG built
\* around a finder of the same name
CallData(name) ==
    Returns("Data", name, Data(name), XDGData(NewXDG(NewDirFinder(name))))

\* a call of the package-level State(name), and of the method on an XDG built
\* around a finder of the same name
CallState(name) ==
    Returns("State", name, State(name), XDGState(NewXDG(NewDirFinder(name))))

\* a call of the package-level Runtime(name), and of the method on an XDG built
\* around a finder of the same name
CallRuntime(name) ==
    Returns("Runtime", name, Runtime(name), XDGRuntime(NewXDG(NewDirFinder(name))))

\* a call of the package-level ConfigDirs(name), and of the method on an XDG built
\* around a finder of the same name
CallConfigDirs(name) ==
    Returns("ConfigDirs", name, ConfigDirs(name), XDGConfigDirs(NewXDG(NewDirFinder(name))))

\* a call of the package-level DataDirs(name), and of the method on an XDG built
\* around a finder of the same name
CallDataDirs(name) ==
    Returns("DataDirs", name, DataDirs(name), XDGDataDirs(NewXDG(NewDirFinder(name))))

\* the tests' calls of getDir and getDirs with a key that is no XDG variable
CallGetDirUnknown(name) ==
    Returns("getDir", name, getDir(newXdg(name), unknownKey),
            getDir(NewXDG(NewDirFinder(name)), unknownKey))

CallGetDirsUnknown(name) ==
    Returns("getDirs", name, getDirs(newXdg(name), unknownKey),
            getDirs(NewXDG(NewDirFinder(name)), unknownKey))

(***************************************************************************)
(* Inputs                                                                  *)
(***************************************************************************)
MaxSegs == 2
MaxEntries == 2

SeqsUpTo(S, n) == UNION {[1..k -> S] : k \in 1..n}

\* path segments, and the paths of up to n of them: "", "/", "a", "/a", "a/",
\* "..", "../a", "a/..", ...
Segs == {<<>>, <<".", ".">>, <<"a">>}
PathStrs(n) == {JoinSep(s, Separator) : s \in SeqsUpTo(Segs, n)}

\* the entries of a search-path variable (none holds a list separator), and
\* the lists of up to n of them
EntryStrs == {<<>>, <<"/", "e">>, <<"e", "/">>}
EntryLists(n) == SeqsUpTo(EntryStrs, n)

\* application names
Names == {<<>>, <<"a", "p", "p">>, <<".", ".">>, <<"x", "/", "y">>}

\* values of HOME
Homes == {Absent, Present(<<>>), Present(<<"/", "h", "o", "m", "e", "/", "t">>), Present(<<"t">>),
          Present(<<"/">>)}

DirVals == PathStrs(MaxSegs)
ListVals == {JoinSep(es, ListSeparator) : es \in EntryLists(MaxEntries)}

NoEnv == [k \in EnvKeys |-> Absent]

\* the environments with HOME anything and at most one XDG variable present
ResolveEnvs ==
    LET one == {[NoEnv EXCEPT ![k] = Present(v)] : k \in DirKeys, v \in DirVals}
               \cup {[NoEnv EXCEPT ![k] = Present(v)] : k \in ListKeys, v \in ListVals}
               \cup {NoEnv}
    IN {[e EXCEPT ![homeKey] = h] : e \in one, h \in Homes}

(***************************************************************************)
(* Resolution as a function of the environment: the environment is drawn   *)
(* at the start, and every resolution function is applied to it.           *)
(***************************************************************************)
InitRest ==
    /\ dir = <<>>
    /\ parts = [called |-> FALSE, panic |-> FALSE, val |-> <<>>]
    /\ fs = <<>>
    /\ made = {}
    /\ created = {}
    /\ redone = FALSE
    /\ fsret = [op |-> "none", path |-> <<>>, ok |-> FALSE, before |-> "none"]

InitResolve ==
    /\ env \in ResolveEnvs
    /\ ret = NoCall
    /\ InitRest

NextResolve ==
    \E name \in Names :
        \/ CallConfig(name)
        \/ CallCache(name)
        \/ CallData(name)
        \/ CallState(name)
        \/ CallRuntime(name)
        \/ CallConfigDirs(name)
        \/ CallDataDirs(name)
        \/ CallGetDirUnknown(name)
        \/ CallGetDirsUnknown(name)

SpecResolve == InitResolve /\ [][NextResolve]_vars

(***************************************************************************)
(* Claims about resolution (checked under SpecResolve)                     *)
(***************************************************************************)
SingleFns == {"Config", "Cache", "Data", "State", "Runtime"}
HomeFns == {"Config", "Cache", "Data", "State"}
ListFns == {"ConfigDirs", "DataDirs"}

\* the environment variable of each role
RoleKey(fn) ==
    CASE fn = "Config" -> "XDG_CONFIG_HOME"
      [] fn = "Cache" -> "XDG_CACHE_HOME"
      [] fn = "Data" -> "XDG_DATA_HOME"
      [] fn = "State" -> "XDG_STATE_HOME"
      [] fn = "Runtime" -> "XDG_RUNTIME_DIR"
      [] fn = "ConfigDirs" -> "XDG_CONFIG_DIRS"
      [] fn = "DataDirs" -> "XDG_DATA_DIRS"

\* the default base of each home-based role, as the specification lists them
RoleDefaultBase(fn) ==
    CASE fn = "Config" -> <<".", "c", "o", "n", "f", "i", "g">>
      [] fn = "Cache" -> <<".", "c", "a", "c", "h", "e">>
      [] fn = "Data" -> <<".", "l", "o", "c", "a", "l", "/", "s", "h", "a", "r", "e">>
      [] fn = "State" -> <<".", "l", "o", "c", "a", "l", "/", "s", "t", "a", "t", "e">>

HomeResolvable == env[homeKey].ok /\ env[homeKey].val # <<>>

\* C1: a single-path role whose variable is present with value V (the empty
\* string included) resolves to join(V, appName), from the package-level
\* function and from the method alike, whatever the home directory is.
C1_PresentValueIsJoined ==
    (ret.fn \in SingleFns /\ env[RoleKey(ret.fn)].ok) =>
        /\ ret.val = Join(<<env[RoleKey(ret.fn)].val, ret.name>>)
        /\ ret.method = ret.val

\* C1 happens: the variable is present and empty, the home directory is not
\* resolvable, and the result is the application name alone
C1_Witness ==
    /\ ret.fn = "Cache"
    /\ env[cacheHomeKey] = Present(<<>>)
    /\ ~HomeResolvable
    /\ ret.name = <<"a", "p", "p">>
    /\ ret.val = <<"a", "p", "p">>

\* C2: a home-based role whose variable is unset, with home directory H,
\* resolves to join(H, defaultBase(role), appName), from the package-level
\* function and from the method alike.
C2_DefaultUnderHome ==
    (ret.fn \in HomeFns /\ ~env[RoleKey(ret.fn)].ok /\ HomeResolvable) =>
        /\ ret.val = Join(<<env[homeKey].val, RoleDefaultBase(ret.fn), ret.name>>)
        /\ ret.method = ret.val

\* C2 happens: State("app") with HOME=/home/t gives /home/t/.local/state/app
C2_Witness ==
    /\ ret.fn = "State"
    /\ ~env[stateHomeKey].ok
    /\ env[homeKey] = Present(<<"/", "h", "o", "m", "e", "/", "t">>)
    /\ ret.name = <<"a", "p", "p">>
    /\ ret.val = <<"/", "h", "o", "m", "e", "/", "t", "/", ".", "l", "o", "c", "a", "l", "/", "s", "t", "a", "t", "e", "/", "a", "p", "p">>

\* C3 as stated: with the home directory unresolvable, every home-based role
\* resolves to the empty string.
C3_NoHomeIsEmpty ==
    (ret.fn \in HomeFns /\ ~HomeResolvable) => ret.val = <<>>

\* C3, amended: with the home directory unresolvable and the role's variable
\* unset, every home-based role resolves to the empty string.
C3_NoHomeNoVarIsEmpty ==
    (ret.fn \in HomeFns /\ ~HomeResolvable /\ ~env[RoleKey(ret.fn)].ok) =>
        /\ ret.val = <<>>
        /\ ret.method = <<>>

\* C3 happens: Config("app") with neither HOME nor XDG_CONFIG_HOME
C3_Witness ==
    /\ ret.fn = "Config"
    /\ ~env[homeKey].ok
    /\ ~env[configHomeKey].ok
    /\ ret.name = <<"a", "p", "p">>
    /\ ret.val = <<>>

\* C4: Runtime with XDG_RUNTIME_DIR unset resolves to the empty string,
\* whether or not the home directory is resolvable.
C4_RuntimeUnsetIsEmpty ==
    (ret.fn = "Runtime" /\ ~env[runtimeDirKey].ok) =>
        /\ ret.val = <<>>
        /\ ret.method = <<>>

\* C4 happens: Runtime("app") with HOME=/home/t and XDG_RUNTIME_DIR unset
C4_Witness ==
    /\ ret.fn = "Runtime"
    /\ ~env[runtimeDirKey].ok
    /\ env[homeKey] = Present(<<"/", "h", "o", "m", "e", "/", "t">>)
    /\ ret.name = <<"a", "p", "p">>
    /\ ret.val = <<>>

\* C5: a search-path role whose variable is unset resolves to its default
\* list with the application name joined to every entry, in order.
C5_DefaultLists ==
    /\ (ret.fn = "ConfigDirs" /\ ~env[configDirsKey].ok) =>
          /\ ret.val = <<Join(<<<<"/", "e", "t", "c", "/", "x", "d", "g">>, ret.name>>)>>
          /\ ret.method = ret.val
    /\ (ret.fn = "DataDirs" /\ ~env[dataDirsKey].ok) =>
          /\ ret.val = <<Join(<<<<"/", "u", "s", "r", "/", "l", "o", "c", "a", "l", "/", "s", "h", "a", "r", "e", "/">>,
                                ret.name>>),
                         Join(<<<<"/", "u", "s", "r", "/", "s", "h", "a", "r", "e", "/">>, ret.name>>)>>
          /\ ret.method = ret.val

\* C5 happens: DataDirs("app") with XDG_DATA_DIRS unset gives two entries,
\* the second being /usr/share/app
C5_Witness ==
    /\ ret.fn = "DataDirs"
    /\ ~env[dataDirsKey].ok
    /\ ret.name = <<"a", "p", "p">>
    /\ Len(ret.val) = 2
    /\ ret.val[2] = <<"/", "u", "s", "r", "/", "s", "h", "a", "r", "e", "/", "a", "p", "p">>

\* C6: a search-path role whose variable is the non-empty separator-joined
\* list of the entries E1..En resolves to <<join(E1, appName), ...,
\* join(En, appName)>>: one element per entry, in order, and nothing else.
C6_OnePerEntry ==
    \A es \in EntryLists(MaxEntries) :
        ( /\ ret.fn \in ListFns
          /\ env[RoleKey(ret.fn)].ok
          /\ env[RoleKey(ret.fn)].val # <<>>
          /\ env[RoleKey(ret.fn)].val = JoinSep(es, ListSeparator) ) =>
            /\ ret.val = [i \in 1..Len(es) |-> Join(<<es[i], ret.name>>)]
            /\ ret.method = ret.val

\* C6 happens: ConfigDirs("app") with XDG_CONFIG_DIRS=":/e" (an empty entry,
\* then /e) gives <<"app", "/e/app">>
C6_Witness ==
    /\ ret.fn = "ConfigDirs"
    /\ env[configDirsKey] = Present(<<":", "/", "e">>)
    /\ ret.name = <<"a", "p", "p">>
    /\ ret.val = <<<<"a", "p", "p">>, <<"/", "e", "/", "a", "p", "p">>>>

\* C10: a search-path role whose variable is present and empty resolves to
\* the empty sequence; the default list is not substituted.
C10_EmptyValueIsEmpty ==
    (ret.fn \in ListFns /\ env[RoleKey(ret.fn)] = Present(<<>>)) =>
        /\ ret.val = <<>>
        /\ ret.method = <<>>

\* C10 happens: DataDirs("app") with XDG_DATA_DIRS="" returns no entry
C10_Witness ==
    /\ ret.fn = "DataDirs"
    /\ env[dataDirsKey] = Present(<<>>)
    /\ ret.name = <<"a", "p", "p">>
    /\ ret.val = <<>>

(***************************************************************************)
(* Dir                                                                     *)
(***************************************************************************)
\* Dir.Append
DirAppend(d, name) == Join(<<d, name>>)

\* Dir.Split.  p[len(p)-1] on an empty p is an index out of range: the call
\* panics instead of returning.
DirSplit(d) ==
    LET p == StringsSplit(d, Separator) IN
    IF Len(p) > 0
    THEN LET q == IF Len(p[1]) = 0 THEN Tail(p) ELSE p IN
         IF Len(q) = 0 THEN [panic |-> TRUE, val |-> <<>>]
         ELSE IF Len(q[Len(q)]) = 0
              THEN [panic |-> FALSE, val |-> SubSeq(q, 1, Len(q) - 1)]
              ELSE [panic |-> FALSE, val |-> q]
    ELSE [panic |-> FALSE, val |-> p]

\* the Dir values: every string of up to MaxDirLen of these characters
MaxDirLen == 4
DirChars == {Separator, "a", "."}
DirStrs == UNION {[1..k -> DirChars] : k \in 0..MaxDirLen}

NotSplit == [called |-> FALSE, panic |-> FALSE, val |-> <<>>]

\* d.Split() on the Dir in hand
CallSplit ==
    /\ parts' = [called |-> TRUE, panic |-> DirSplit(dir).panic, val |-> DirSplit(dir).val]
    /\ UNCHANGED <<env, ret, dir, fs, made, created, redone, fsret>>

\* d = d.Append(name)
CallAppend(name) ==
    /\ Len(DirAppend(dir, name)) <= MaxDirLen
    /\ dir' = DirAppend(dir, name)
    /\ parts' = NotSplit
    /\ UNCHANGED <<env, ret, fs, made, created, redone, fsret>>

InitSplit ==
    /\ dir \in DirStrs
    /\ parts = NotSplit
    /\ env = NoEnv
    /\ ret = NoCall
    /\ fs = <<>>
    /\ made = {}
    /\ created = {}
    /\ redone = FALSE
    /\ fsret = [op |-> "none", path |-> <<>>, ok |-> FALSE, before |-> "none"]

NextSplit ==
    \/ CallSplit
    \/ \E name \in {<<>>, <<"a">>} : CallAppend(name)

SpecSplit == InitSplit /\ [][NextSplit]_vars

\* the textual split of a path with one leading and one trailing empty
\* segment dropped
TrimmedSplit(d) ==
    LET p == StringsSplit(d, Separator)
        q == IF Len(p) > 0 /\ p[1] = <<>> THEN Tail(p) ELSE p
    IN IF Len(q) > 0 /\ q[Len(q)] = <<>> THEN SubSeq(q, 1, Len(q) - 1) ELSE q

\* C7: for every path, the empty one included, Split returns, and returns the
\* textual split on the separator with one leading and one trailing empty
\* segment dropped and every interior segment kept.
C7_SplitReturnsTrimmed ==
    parts.called => (~parts.panic /\ parts.val = TrimmedSplit(dir))

(***************************************************************************)
(* The filesystem under Dir.Exists and Dir.Create.  A node is the sequence *)
(* of the components of an absolute path (<<>> is the root, always a       *)
(* directory); fs gives each node "none", "dir" (a directory the caller    *)
(* may search and write), "file" (a regular file some other program left   *)
(* there) or "locked" (a directory the caller may neither search nor       *)
(* write).  Nothing in the package removes an entry or changes a mode.     *)
(***************************************************************************)
MaxDepth == 2
FsNames == {<<"a">>, <<"b">>}
FsKinds == {"none", "dir", "file", "locked"}
DirKinds == {"dir", "locked"}

\* the nodes of the model: two chains of directories under the root,
\* /a, /a/a, ... and /b, /b/b, ..., MaxDepth deep
Nodes == {[i \in 1..k |-> x] : x \in FsNames, k \in 1..MaxDepth}

\* the components of a path: the pieces between separators, empty ones skipped
Components(path) ==
    SelectSeq(StringsSplit(path, Separator), LAMBDA c : c # <<>>)

\* the path of a node: /a/b for the node of components a, b; / for the root
PathOf(node) ==
    IF node = <<>> THEN <<Separator>>
    ELSE <<Separator>> \o JoinSep(node, Separator)

FsDirs == {PathOf(n) : n \in Nodes \cup {<<>>}}

Parent(node) == SubSeq(node, 1, Len(node) - 1)
KindIn(f, node) == IF node = <<>> THEN "dir" ELSE f[node]

\* os.Stat / os.Lstat on the filesystem f (there are no symbolic links): the
\* lookup walks the components from the root.  Going through a regular file
\* is ENOTDIR, going through a directory without search permission is
\* EACCES; the last component itself needs no permission.
RECURSIVE StatFrom(_, _, _)
StatFrom(f, node, i) ==
    LET k == KindIn(f, SubSeq(node, 1, i)) IN
    IF k = "none" THEN [err |-> "ENOENT", isDir |-> FALSE]
    ELSE IF i = Len(node) THEN [err |-> "nil", isDir |-> k \in DirKinds]
    ELSE IF k = "file" THEN [err |-> "ENOTDIR", isDir |-> FALSE]
    ELSE IF k = "locked" THEN [err |-> "EACCES", isDir |-> FALSE]
    ELSE StatFrom(f, node, i + 1)

Stat(f, node) == StatFrom(f, node, 0)

\* os.IsNotExist
IsNotExist(err) == err = "ENOENT"

\* os.Mkdir: the parent is looked up, and must be a directory the caller may
\* search and write
Mkdir(f, node) ==
    LET p == Stat(f, Parent(node)) IN
    IF p.err # "nil" THEN [fs |-> f, err |-> p.err]
    ELSE IF ~p.isDir THEN [fs |-> f, err |-> "ENOTDIR"]
    ELSE IF KindIn(f, Parent(node)) = "locked" THEN [fs |-> f, err |-> "EACCES"]
    ELSE IF f[node] # "none" THEN [fs |-> f, err |-> "EEXIST"]
    ELSE [fs |-> [f EXCEPT ![node] = "dir"], err |-> "nil"]

\* os.MkdirAll
RECURSIVE MkdirAll(_, _)
MkdirAll(f, node) ==
    LET st == Stat(f, node) IN
    IF st.err = "nil"
    THEN IF st.isDir THEN [fs |-> f, err |-> "nil"]
         ELSE [fs |-> f, err |-> "ENOTDIR"]
    ELSE LET up == IF Len(node) > 1 THEN MkdirAll(f, Parent(node))
                   ELSE [fs |-> f, err |-> "nil"]
         IN IF up.err # "nil" THEN up
            ELSE LET mk == Mkdir(up.fs, node)
                     st1 == Stat(up.fs, node)
                 IN IF mk.err # "nil" /\ st1.err = "nil" /\ st1.isDir
                    THEN [fs |-> up.fs, err |-> "nil"]
                    ELSE mk

\* exists(path) changed to report a path only when stat succeeds
exists_statSucceeds(path) == Stat(fs, Components(path)).err = "nil"

\* exists(path)
exists(path) == ~IsNotExist(Stat(fs, Components(path)).err)

\* Dir.Exists
DirExists(d) == exists(d)

\* Dir.Create: the filesystem after the call, and its error
DirCreate(d) == MkdirAll(fs, Components(d))

NoFsCall == [op |-> "none", path |-> <<>>, ok |-> FALSE, before |-> "none"]

\* d.Exists() for a Dir d
CallExists(d) ==
    /\ fsret' = [op |-> "Exists", path |-> d, ok |-> DirExists(d),
                 before |-> KindIn(fs, Components(d))]
    /\ UNCHANGED <<env, ret, dir, parts, fs, made, created, redone>>

\* d.Create() for a Dir d; made gains the directories the call made
CallCreate(d) ==
    LET r == DirCreate(d) IN
    /\ fs' = r.fs
    /\ made' = made \cup {n \in Nodes : fs[n] = "none" /\ r.fs[n] # "none"}
    /\ created' = IF r.err = "nil" THEN created \cup {Components(d)} ELSE created
    /\ redone' = (redone \/ (r.err = "nil" /\ KindIn(fs, Components(d)) \in DirKinds))
    /\ fsret' = [op |-> "Create", path |-> d, ok |-> r.err = "nil",
                 before |-> KindIn(fs, Components(d))]
    /\ UNCHANGED <<env, ret, dir, parts>>

\* the filesystems a run can start from: every entry lies in a directory
StartFs ==
    {f \in [Nodes -> FsKinds] :
        \A n \in Nodes : (f[n] # "none" /\ Len(n) > 1) => f[Parent(n)] \in DirKinds}

InitFs ==
    /\ fs \in StartFs
    /\ made = {<<>>} \cup {n \in Nodes : fs[n] # "none"}
    /\ created = {}
    /\ redone = FALSE
    /\ fsret = NoFsCall
    /\ env = NoEnv
    /\ ret = NoCall
    /\ dir = <<>>
    /\ parts = NotSplit

NextFs ==
    \E d \in FsDirs :
        \/ CallExists(d)
        \/ CallCreate(d)

SpecFs == InitFs /\ [][NextFs]_vars

(***************************************************************************)
(* Claims about Create and Exists (checked under SpecFs)                   *)
(***************************************************************************)
\* some directory on the way to the node is a regular file
UnderFile(node) ==
    \E i \in 1..(Len(node) - 1) : KindIn(fs, SubSeq(node, 1, i)) = "file"

\* some directory on the way to the node may not be searched
UnderLocked(node) ==
    \E i \in 1..(Len(node) - 1) : KindIn(fs, SubSeq(node, 1, i)) = "locked"

\* Exists(p) holds of every path on which Create has succeeded
CreatedExist ==
    /\ \A n \in created : DirExists(PathOf(n))
    /\ (fsret.op = "Exists" /\ Components(fsret.path) \in created) => fsret.ok

\* Create on a path that was a directory succeeds and leaves it a directory
CreateIdempotent ==
    (fsret.op = "Create" /\ fsret.before \in DirKinds) =>
        (fsret.ok /\ KindIn(fs, Components(fsret.path)) \in DirKinds)

\* Create on a path that was a directory leaves it the directory it was; it
\* succeeds when every directory on the way to the path may be searched, and
\* fails when one may not
CreateOnDirectory ==
    (fsret.op = "Create" /\ fsret.before \in DirKinds) =>
        /\ fsret.ok <=> ~UnderLocked(Components(fsret.path))
        /\ KindIn(fs, Components(fsret.path)) = fsret.before

\* C8 as stated: Exists(p) is false on a path that was never created,
\* Exists(p) is true in every state after a successful Create(p), and Create
\* on an existing directory succeeds and leaves it existing.
C8_NeverCreatedNotExists ==
    /\ (fsret.op = "Exists" /\ Components(fsret.path) \notin made) => ~fsret.ok
    /\ CreatedExist
    /\ CreateIdempotent

\* C8, amended: on a path that was never created, Exists(p) is true when a
\* directory on the way to p is a regular file or may not be searched (the
\* lookup fails with an error other than "not found") and false otherwise;
\* Exists(p) is true in every state after a successful Create(p); Create on
\* an existing directory leaves it existing, and succeeds when every
\* directory on the way to it may be searched and fails when one may not.
C8_CreateThenExists ==
    /\ (fsret.op = "Exists" /\ Components(fsret.path) \notin made) =>
          (fsret.ok <=> (UnderFile(Components(fsret.path))
                         \/ UnderLocked(Components(fsret.path))))
    /\ CreatedExist
    /\ CreateOnDirectory

\* C8 happens: Create(/a/a) has succeeded, and a Create has succeeded on a
\* path that was a directory already; /b is a regular file, /b/b was never
\* created, and Exists(/b/b) has just returned true
C8_Witness ==
    /\ <<<<"a">>, <<"a">>>> \in created
    /\ redone
    /\ DirExists(<<"/", "a", "/", "a">>)
    /\ fs[<<<<"b">>>>] = "file"
    /\ <<<<"b">>, <<"b">>>> \notin made
    /\ fsret.op = "Exists"
    /\ fsret.path = <<"/", "b", "/", "b">>
    /\ fsret.ok

====
